---- MODULE Spec2Model ----
(***************************************************************************)
(* A model of react-bot-detection: the useBotDetection hook (telemetry     *)
(* buffers and the behavioural scorer), the Honeypot component, the        *)
(* useHoneypot hook and BotProtectedForm.handleSubmit.                     *)
(*                                                                         *)
(* React is modelled at the granularity of its event loop: every handler   *)
(* runs to completion, and a handler that changes a piece of React state   *)
(* is followed by a re-render before the next event is handled.  Refs      *)
(* (mouseMovements, typingPatterns, lastKeyTime, hasTriggered) change      *)
(* without a re-render, so values computed during render (the hook's       *)
(* `stats`) stay as they were at the last render.                          *)
(***************************************************************************)
EXTENDS Integers, Sequences, FiniteSets, TLC

\* ------------------------------------------------------------------ bounds
MaxMouseEvents == 52    \* mousemove events in the mouse-buffer specification
MaxKeyEvents == 102     \* keydown events in the key-buffer specification
FormMouseEvents == 5    \* mousemove events in the form specification
ScoreMouseEvents == 5   \* mousemove events in the scoring specification
ScoreKeyEvents == 11    \* keydown events in the scoring specification
MaxFocus == 2           \* focus events
MaxTicks == 1           \* clock advances that are not tied to a keydown
MaxSubmits == 2         \* submission attempts of one form instance
MaxHoneypotCalls == 3   \* direct calls of useHoneypot.handleBotDetected
MaxHoneypotFills == 2   \* changes of a honeypot field to a non-blank value
LegitMouseEvents == 11  \* mousemove events in the session specification
LegitKeyEvents == 12    \* keydown events in the session specification
LifeEvents == 3         \* events of each kind in the lifecycle specification
MaxMounts == 2          \* activations of the hook's effect
MaxUnheard == 2         \* events dispatched while no listener is registered

\* ------------------------------------------------------- program constants
MouseCapacity == 50
TypingCapacity == 100

\* ------------------------------------------------------------- input sets
\* A pointer path is a cycle of two steps <<dx, dy>>; a typing rhythm is a
\* cycle of two gaps in ms between one keydown and the next.
MouseSteps == { <<0, 0>>, <<2, -2>>, <<-3, 2>>, <<5, 0>>, <<-10, 10>> }
KeyGapValues == { 0, 30, 50, 70, 1000 }
TickValues == { 1999, 2000 }
IdleValues == { 2999, 3000 }
StartClocks == { 0, 700, 5000 }
OuterSizes == { 0, 1024 }
\* Values typed into a field, as sequences of characters.
FieldValues == { << >>, << " ", " " >>, << "\t" >>, << "s", "p" >>, << " ", "x", " " >> }
Whitespace == { " ", "\t", "\n" }
FormValues == { "", "test@example.com" }

NoResult == [none |-> TRUE]

VARIABLES
    \* the clock and the host
    now,                \* Date.now()
    webdriver,          \* navigator.webdriver === true
    outerWidth,         \* window.outerWidth
    outerHeight,        \* window.outerHeight
    \* useBotDetection
    formStartTime,
    mouseMovements,
    hasMouseMovement,
    typingPatterns,
    lastKeyTime,
    focusEvents,
    botScore,
    detectionReasons,
    stats,              \* the stats object the hook returned at the last render
    \* Honeypot and useHoneypot
    hasTriggered,
    isBotDetected,
    honeypotScore,      \* useHoneypot's botScore
    \* BotProtectedForm
    isSubmitting,
    pending,            \* an onSubmit promise is awaited by handleSubmit
    hasOnBotDetected,   \* the optional onBotDetected prop is provided
    email,              \* the value of the form's child input
    \* the user's input scenario
    mousePath,
    keyGaps,
    pointer,            \* where the pointer is
    \* observations
    mouseLog,           \* every mousemove sample pushed, in arrival order
    keyLog,             \* every keydown sample pushed, in arrival order
    returned,           \* what the analyzeBehavior call just made returned
    ticks,
    focusCalls,
    honeypotCallbacks,  \* calls of Honeypot's onBotDetected prop
    honeypotFills,      \* changes of a honeypot field to a non-blank value
    filledSinceReset,   \* ... since the last resetDetection (or since mount)
    honeypotCalls,      \* handleBotDetected calls since then
    submits,
    merged,             \* botDetectionResult of the last submission
    onSubmitCalls,      \* arguments of the onSubmit calls of the last submission
    onBotDetectedCalls, \* arguments of the onBotDetected calls of the last one
    consoleErrors,      \* console.error calls of the last submission
    threw,              \* the callback handleSubmit called threw at once
    \* the hook's effect and the document's listener lists
    mounted,            \* the effect is active
    mouseListeners,     \* listeners of the document's mousemove event
    keyListeners,       \* listeners of the document's keydown event
    effectRuns,         \* runs of the effect's body
    cleanupRuns,        \* runs of the effect's cleanup
    unheard             \* events dispatched while no listener was registered

hookVars == << formStartTime, mouseMovements, hasMouseMovement, typingPatterns,
               lastKeyTime, focusEvents, botScore, detectionReasons, stats >>
hostVars == << webdriver, outerWidth, outerHeight >>
honeypotVars == << hasTriggered, isBotDetected, honeypotScore >>
formVars == << isSubmitting, pending, hasOnBotDetected, email >>
inputVars == << mousePath, keyGaps, pointer >>
lifecycleVars == << mounted, mouseListeners, keyListeners, effectRuns,
                   cleanupRuns, unheard >>
lastSubmission ==
    << merged, onSubmitCalls, onBotDetectedCalls, consoleErrors, threw >>
submitObs == << submits, lastSubmission >>
obsVars == << mouseLog, keyLog, returned, ticks, focusCalls, honeypotCallbacks,
              honeypotFills, filledSinceReset, honeypotCalls, submitObs >>
vars == << now, hostVars, hookVars, honeypotVars, formVars, inputVars, obsVars,
          lifecycleVars >>

\* ----------------------------------------------------------- list helpers
RECURSIVE SumSeq(_)
SumSeq(s) == IF s = << >> THEN 0 ELSE Head(s) + SumSeq(Tail(s))

Abs(n) == IF n < 0 THEN -n ELSE n

\* Array.prototype.slice(-k): the last k elements, all of them when shorter.
SliceLast(s, k) == IF Len(s) <= k THEN s ELSE SubSeq(s, Len(s) - k + 1, Len(s))

\* ------------------------------------------------------- useBotDetection
\* The stats object built from the live refs and state (built at every render
\* of the hook and inside analyzeBehavior).
StatsOf(movements, patterns, focus, t) ==
    [ mouseMovements |-> Len(movements),
      typingEvents |-> Len(patterns),
      focusEvents |-> focus,
      timeSpent |-> t - formStartTime ]

\* mouseMovements.current.push(movement); shift() when longer than 50.
PushMouse_NoShift(buf, movement) == Append(buf, movement)

PushMouse_Restart(buf, movement) ==
    IF Len(buf) >= MouseCapacity THEN << movement >> ELSE Append(buf, movement)

PushMouse(buf, movement) ==
    LET pushed == Append(buf, movement)
    IN  IF Len(pushed) > MouseCapacity THEN Tail(pushed) ELSE pushed

trackMouseMovement(e) ==
    LET movement == [ x |-> e.clientX, y |-> e.clientY, timestamp |-> now ]
    IN  /\ mouseMovements' = PushMouse(mouseMovements, movement)
        /\ hasMouseMovement' = TRUE
        /\ mouseLog' = Append(mouseLog, movement)
        \* setHasMouseMovement(true) re-renders only when the state changes
        /\ stats' = IF hasMouseMovement
                    THEN stats
                    ELSE StatsOf(mouseMovements', typingPatterns, focusEvents, now)

\* typingPatterns.current.push(pattern); shift() when longer than 100.
PushKey_NoShift(buf, pattern) == Append(buf, pattern)

PushKey(buf, pattern) ==
    LET pushed == Append(buf, pattern)
    IN  IF Len(pushed) > TypingCapacity THEN Tail(pushed) ELSE pushed

trackKeyPress_StaleRef(e, t) ==
    LET timeSinceLastKey == t - lastKeyTime
        pattern == [ key |-> e.key, timestamp |-> t,
                     timeSinceLastKey |-> timeSinceLastKey ]
    IN  /\ typingPatterns' = PushKey(typingPatterns, pattern)
        /\ lastKeyTime' = lastKeyTime
        /\ keyLog' = Append(keyLog, pattern)

\* t is the value Date.now() returns inside the handler.
trackKeyPress(e, t) ==
    LET timeSinceLastKey == t - lastKeyTime
        pattern == [ key |-> e.key, timestamp |-> t,
                     timeSinceLastKey |-> timeSinceLastKey ]
    IN  /\ typingPatterns' = PushKey(typingPatterns, pattern)
        /\ lastKeyTime' = t
        /\ keyLog' = Append(keyLog, pattern)

\* The running total of one scoring pass: score += weight; reasons.push(reason).
Flag_NoReason(acc, weight, reason) ==
    [ score |-> acc.score + weight, reasons |-> acc.reasons ]

Flag(acc, weight, reason) ==
    [ score |-> acc.score + weight, reasons |-> Append(acc.reasons, reason) ]

\* variations[i] of analyzeBehavior: 0 for the first sample of the slice, else
\* the Manhattan distance to the sample before it.
Variations(movements) ==
    [ i \in 1..Len(movements) |->
        IF i = 1 THEN 0
        ELSE Abs(movements[i].x - movements[i - 1].x)
             + Abs(movements[i].y - movements[i - 1].y) ]

\* avgVariation < 5, with avgVariation = sum / variations.length
LowVariation(movements) ==
    SumSeq(Variations(movements)) < 5 * Len(movements)

\* The intervals of the last 20 keystrokes that pass the filter t > 0 && t < 1000.
Intervals(patterns) ==
    LET last == SliceLast(patterns, 20)
        times == [ i \in 1..Len(last) |-> last[i].timeSinceLastKey ]
        Reasonable(t) == t > 0 /\ t < 1000
    IN  SelectSeq(times, Reasonable)

Squares(s) == [ i \in 1..Len(s) |-> s[i] * s[i] ]

\* variance < 100, with avg = sum / n and variance = sum((t - avg)^2) / n:
\* multiplied by n^2, n * sum(t^2) - sum(t)^2 < 100 * n^2.
LowVariance(intervals) ==
    LET n == Len(intervals)
        total == SumSeq(intervals)
    IN  n * SumSeq(Squares(intervals)) - total * total < 100 * n * n

\* avgInterval < 50
FastTyping(intervals) == SumSeq(intervals) < 50 * Len(intervals)

\* 1. Check mouse movements
MouseRule_Both(acc) ==
    LET r1 == IF ~hasMouseMovement \/ Len(mouseMovements) < 5
              THEN Flag(acc, 30, "No natural mouse movement detected")
              ELSE acc
    IN  IF LowVariation(SliceLast(mouseMovements, 20))
        THEN Flag(r1, 20, "Unnatural mouse movement patterns")
        ELSE r1

MouseRule_OnlyShortPaths(acc) ==
    IF hasMouseMovement /\ Len(mouseMovements) < 5
    THEN Flag(acc, 30, "No natural mouse movement detected")
    ELSE IF LowVariation(SliceLast(mouseMovements, 20))
         THEN Flag(acc, 20, "Unnatural mouse movement patterns")
         ELSE acc

MouseRule(acc) ==
    IF ~hasMouseMovement \/ Len(mouseMovements) < 5
    THEN Flag(acc, 30, "No natural mouse movement detected")
    ELSE IF LowVariation(SliceLast(mouseMovements, 20))
         THEN Flag(acc, 20, "Unnatural mouse movement patterns")
         ELSE acc

TypingRule_TenSamples(acc) ==
    IF Len(typingPatterns) >= 10
    THEN LET intervals == Intervals(typingPatterns)
         IN  IF Len(intervals) > 5
             THEN LET a == IF LowVariance(intervals)
                           THEN Flag(acc, 15, "Unnaturally consistent typing pattern")
                           ELSE acc
                  IN  IF FastTyping(intervals)
                      THEN Flag(a, 20, "Superhuman typing speed detected")
                      ELSE a
             ELSE acc
    ELSE acc

\* 2. Check typing patterns
TypingRule(acc) ==
    IF Len(typingPatterns) > 10
    THEN LET intervals == Intervals(typingPatterns)
         IN  IF Len(intervals) > 5
             THEN LET a == IF LowVariance(intervals)
                           THEN Flag(acc, 15, "Unnaturally consistent typing pattern")
                           ELSE acc
                  IN  IF FastTyping(intervals)
                      THEN Flag(a, 20, "Superhuman typing speed detected")
                      ELSE a
             ELSE acc
    ELSE acc

SpeedRule_Inclusive(acc, t) ==
    IF t - formStartTime <= 2000
    THEN Flag(acc, 40, "Form filled too quickly")
    ELSE acc

\* 3. Check form filling speed
SpeedRule(acc, t) ==
    IF t - formStartTime < 2000
    THEN Flag(acc, 40, "Form filled too quickly")
    ELSE acc

FocusRule_AtMostTwo(acc) ==
    IF focusEvents <= 2
    THEN Flag(acc, 15, "Insufficient focus interactions")
    ELSE acc

\* 4. Check focus events
FocusRule(acc) ==
    IF focusEvents < 2
    THEN Flag(acc, 15, "Insufficient focus interactions")
    ELSE acc

\* 5. Check browser features
WebdriverRule(acc) ==
    IF webdriver
    THEN Flag(acc, 25, "Automated browser detected")
    ELSE acc

HeadlessRule_BothAxes(acc) ==
    IF outerWidth = 0 /\ outerHeight = 0
    THEN Flag(acc, 35, "Headless browser indicators")
    ELSE acc

\* 6. Check for headless browser indicators
HeadlessRule(acc) ==
    IF outerWidth = 0 \/ outerHeight = 0
    THEN Flag(acc, 35, "Headless browser indicators")
    ELSE acc

\* isBot: score >= 50
IsBotScore_Exclusive(score) == score > 50

IsBotScore(score) == score >= 50

\* The BotDetectionResult a call of analyzeBehavior returns at clock value t.
analyzeBehavior(t) ==
    LET acc == HeadlessRule(WebdriverRule(FocusRule(SpeedRule(
                   TypingRule(MouseRule([ score |-> 0, reasons |-> << >> ])), t))))
    IN  [ score |-> acc.score,
          reasons |-> acc.reasons,
          isBot |-> IsBotScore(acc.score),
          stats |-> StatsOf(mouseMovements, typingPatterns, focusEvents, t),
          honeypotTriggered |-> FALSE ]

\* The effect's body: document.addEventListener for both events.  A listener
\* list holds a callback once however often it is added; the callbacks are
\* useCallback(..., []) values, the same at every render.
setupListeners ==
    /\ mouseListeners' = mouseListeners \cup { "trackMouseMovement" }
    /\ keyListeners' = keyListeners \cup { "trackKeyPress" }

cleanupListeners_KeepsKeydown ==
    /\ mouseListeners' = mouseListeners \ { "trackMouseMovement" }
    /\ keyListeners' = keyListeners

\* The effect's cleanup: document.removeEventListener for both events.
cleanupListeners ==
    /\ mouseListeners' = mouseListeners \ { "trackMouseMovement" }
    /\ keyListeners' = keyListeners \ { "trackKeyPress" }

\* setFocusEvents((prev) => prev + 1), then a re-render
handleFieldFocus ==
    /\ focusEvents' = focusEvents + 1
    /\ stats' = StatsOf(mouseMovements, typingPatterns, focusEvents', now)

FocusUpdates_Snapshot(prev, k) == IF k = 0 THEN prev ELSE prev + 1

\* k queued updaters (prev) => prev + 1, applied in order at the next render.
RECURSIVE FocusUpdates(_, _)
FocusUpdates(prev, k) ==
    IF k = 0 THEN prev ELSE FocusUpdates(prev + 1, k - 1)

\* k calls of handleFieldFocus in one batch: one render after all of them.
handleFieldFocusBatch(k) ==
    /\ focusEvents' = FocusUpdates(focusEvents, k)
    /\ stats' = StatsOf(mouseMovements, typingPatterns, focusEvents', now)

\* const result = analyzeBehavior(); setBotScore(result.score);
\* setDetectionReasons(result.reasons); return result
handleFormSubmit(result) ==
    /\ botScore' = result.score
    /\ detectionReasons' = result.reasons

\* ------------------------------------------------ Honeypot and useHoneypot
DEFAULT_HONEYPOT_FIELDS ==
    { "hp_contact_info", "hp_website_url", "hp_fax_number", "hp_company_name" }

\* String.prototype.trim
RECURSIVE TrimStart(_)
TrimStart(v) ==
    IF v # << >> /\ Head(v) \in Whitespace THEN TrimStart(Tail(v)) ELSE v

RECURSIVE TrimEnd(_)
TrimEnd(v) ==
    IF v # << >> /\ v[Len(v)] \in Whitespace
    THEN TrimEnd(SubSeq(v, 1, Len(v) - 1))
    ELSE v

Trim(v) == TrimEnd(TrimStart(v))

\* useHoneypot.handleBotDetected
handleBotDetected_Flat ==
    /\ isBotDetected' = TRUE
    /\ honeypotScore' = 50
    /\ honeypotCalls' = honeypotCalls + 1

handleBotDetected ==
    /\ isBotDetected' = TRUE
    /\ honeypotScore' = honeypotScore + 50
    /\ honeypotCalls' = honeypotCalls + 1

\* useHoneypot.resetDetection
resetDetection_KeepsScore ==
    /\ isBotDetected' = FALSE
    /\ honeypotScore' = honeypotScore
    /\ honeypotCalls' = 0

resetDetection ==
    /\ isBotDetected' = FALSE
    /\ honeypotScore' = 0
    /\ honeypotCalls' = 0

\* Honeypot.handleFieldChange, with onBotDetected = useHoneypot.handleBotDetected
\* (the HoneypotComponent of useHoneypot).
Fires_EveryFill(value) == Trim(value) # << >>

Fires(value) == Trim(value) # << >> /\ ~hasTriggered

handleFieldChange_Unlatched(value) ==
    IF Trim(value) # << >>
    THEN /\ hasTriggered' = TRUE
         /\ handleBotDetected
         /\ honeypotCallbacks' = honeypotCallbacks + 1
    ELSE /\ hasTriggered' = FALSE
         /\ resetDetection
         /\ UNCHANGED honeypotCallbacks

handleFieldChange(value) ==
    IF Fires(value)
    THEN /\ hasTriggered' = TRUE
         /\ handleBotDetected
         /\ honeypotCallbacks' = honeypotCallbacks + 1
    ELSE /\ UNCHANGED << hasTriggered, isBotDetected, honeypotScore >>
         /\ UNCHANGED << honeypotCallbacks, honeypotCalls >>

\* -------------------------------------------------------- BotProtectedForm
\* The botDetectionResult handleSubmit builds from the behavioural result; the
\* closure's honeypotTriggered and stats are those of the last render.
IsBotMerged(finalBotScore, honeypotTriggered) ==
    finalBotScore >= 50 \/ honeypotTriggered

HoneypotWeight_HookScore(honeypotTriggered) ==
    IF honeypotTriggered THEN honeypotScore ELSE 0

HoneypotWeight_Light(honeypotTriggered) == IF honeypotTriggered THEN 25 ELSE 0

HoneypotWeight(honeypotTriggered) == IF honeypotTriggered THEN 100 ELSE 0

Merge_BehaviourVerdict(behaviorResult, honeypotTriggered) ==
    LET finalBotScore == behaviorResult.score + HoneypotWeight(honeypotTriggered)
        allReasons == behaviorResult.reasons
                      \o (IF honeypotTriggered THEN << "Honeypot field filled" >>
                          ELSE << >>)
    IN  [ score |-> finalBotScore,
          reasons |-> allReasons,
          isBot |-> behaviorResult.isBot,
          stats |-> stats,
          honeypotTriggered |-> honeypotTriggered ]

Merge_HoneypotFirst(behaviorResult, honeypotTriggered) ==
    LET finalBotScore == behaviorResult.score + HoneypotWeight(honeypotTriggered)
        allReasons == (IF honeypotTriggered THEN << "Honeypot field filled" >>
                       ELSE << >>)
                      \o behaviorResult.reasons
    IN  [ score |-> finalBotScore,
          reasons |-> allReasons,
          isBot |-> IsBotMerged(finalBotScore, honeypotTriggered),
          stats |-> stats,
          honeypotTriggered |-> honeypotTriggered ]

Merge(behaviorResult, honeypotTriggered) ==
    LET finalBotScore == behaviorResult.score + HoneypotWeight(honeypotTriggered)
        allReasons == behaviorResult.reasons
                      \o (IF honeypotTriggered THEN << "Honeypot field filled" >>
                          ELSE << >>)
    IN  [ score |-> finalBotScore,
          reasons |-> allReasons,
          isBot |-> IsBotMerged(finalBotScore, honeypotTriggered),
          stats |-> stats,
          honeypotTriggered |-> honeypotTriggered ]

\* What handleSubmit does with a result it classified as a bot.
BotBranch_AlsoSubmits(result, throws) ==
    /\ onBotDetectedCalls' = IF hasOnBotDetected THEN << result >> ELSE << >>
    /\ onSubmitCalls' = << [ data |-> [ email |-> email ], botDetection |-> result ] >>
    /\ consoleErrors' = IF hasOnBotDetected /\ throws THEN 1 ELSE 0
    /\ threw' = (hasOnBotDetected /\ throws)
    /\ isSubmitting' = FALSE
    /\ pending' = pending

BotBranch_NoFinally(result, throws) ==
    /\ onBotDetectedCalls' = IF hasOnBotDetected THEN << result >> ELSE << >>
    /\ onSubmitCalls' = << >>
    /\ consoleErrors' = IF hasOnBotDetected /\ throws THEN 1 ELSE 0
    /\ threw' = (hasOnBotDetected /\ throws)
    /\ isSubmitting' = (hasOnBotDetected /\ throws)
    /\ pending' = pending

\* onBotDetected?.(botDetectionResult); setIsSubmitting(false); return -- and the
\* catch and finally blocks when the callback throws.
BotBranch(result, throws) ==
    /\ onBotDetectedCalls' = IF hasOnBotDetected THEN << result >> ELSE << >>
    /\ onSubmitCalls' = << >>
    /\ consoleErrors' = IF hasOnBotDetected /\ throws THEN 1 ELSE 0
    /\ threw' = (hasOnBotDetected /\ throws)
    /\ isSubmitting' = FALSE
    /\ pending' = pending

\* const formData = new FormData(e.currentTarget); await onSubmit(formData, result)
\* -- up to the await, or through catch and finally when onSubmit throws at once.
SubmitBranch_NoCall(result, throws) ==
    /\ onSubmitCalls' = << >>
    /\ onBotDetectedCalls' = << >>
    /\ consoleErrors' = 0
    /\ threw' = FALSE
    /\ isSubmitting' = FALSE
    /\ pending' = pending

SubmitBranch_FlagCleared(result, throws) ==
    /\ onSubmitCalls' = << [ data |-> [ email |-> email ], botDetection |-> result ] >>
    /\ onBotDetectedCalls' = << >>
    /\ threw' = throws
    /\ IF throws
       THEN /\ consoleErrors' = 1
            /\ isSubmitting' = FALSE
            /\ pending' = pending
       ELSE /\ consoleErrors' = 0
            /\ isSubmitting' = FALSE
            /\ pending' = pending + 1

SubmitBranch(result, throws) ==
    /\ onSubmitCalls' = << [ data |-> [ email |-> email ], botDetection |-> result ] >>
    /\ onBotDetectedCalls' = << >>
    /\ threw' = throws
    /\ IF throws
       THEN /\ consoleErrors' = 1
            /\ isSubmitting' = FALSE
            /\ pending' = pending
       ELSE /\ consoleErrors' = 0
            /\ isSubmitting' = TRUE
            /\ pending' = pending + 1

handleSubmit_StaleVerdict(throws) ==
    LET behaviorResult == analyzeBehavior(now)
        botDetectionResult == Merge(behaviorResult, isBotDetected)
    IN  /\ handleFormSubmit(behaviorResult)
        /\ returned' = behaviorResult
        /\ merged' = botDetectionResult
        /\ submits' = submits + 1
        /\ IF botDetectionResult.isBot \/ IsBotScore(botScore)
           THEN BotBranch(botDetectionResult, throws)
           ELSE SubmitBranch(botDetectionResult, throws)
        /\ stats' = StatsOf(mouseMovements, typingPatterns, focusEvents, now)

\* handleSubmit up to its first suspension point (or to its end).  `throws` says
\* whether the caller's callback invoked in this submission throws.
handleSubmit(throws) ==
    LET behaviorResult == analyzeBehavior(now)
        botDetectionResult == Merge(behaviorResult, isBotDetected)
    IN  /\ handleFormSubmit(behaviorResult)
        /\ returned' = behaviorResult
        /\ merged' = botDetectionResult
        /\ submits' = submits + 1
        /\ IF botDetectionResult.isBot
           THEN BotBranch(botDetectionResult, throws)
           ELSE SubmitBranch(botDetectionResult, throws)
        \* setDetectionReasons gets a new array: the form re-renders
        /\ stats' = StatsOf(mouseMovements, typingPatterns, focusEvents, now)

onSubmitSettled_NoFinally(rejected) ==
    /\ consoleErrors' = IF rejected THEN consoleErrors + 1 ELSE consoleErrors
    /\ isSubmitting' = rejected
    /\ pending' = pending - 1
    /\ stats' = StatsOf(mouseMovements, typingPatterns, focusEvents, now)

\* handleSubmit from the point where the awaited onSubmit promise settles:
\* catch (console.error) when it rejected, then finally.
onSubmitSettled(rejected) ==
    /\ consoleErrors' = IF rejected THEN consoleErrors + 1 ELSE consoleErrors
    /\ isSubmitting' = FALSE
    /\ pending' = pending - 1
    /\ stats' = StatsOf(mouseMovements, typingPatterns, focusEvents, now)

SubmitDisabled_StaleVerdict == isSubmitting \/ IsBotScore(botScore)

SubmitDisabled_Never == FALSE

\* The submit button: disabled={isSubmitting}
SubmitDisabled == isSubmitting

\* ------------------------------------------------------------------ events
\* The observations describe the call just made: any later event ends the
\* observation of what the last analyzeBehavior call returned, and, unless its
\* onSubmit call is still pending, of the last submission.
Forget ==
    /\ returned' = NoResult
    /\ IF pending > 0
       THEN UNCHANGED lastSubmission
       ELSE /\ merged' = NoResult
            /\ onSubmitCalls' = << >>
            /\ onBotDetectedCalls' = << >>
            /\ consoleErrors' = 0
            /\ threw' = FALSE

\* The state after mount, for a scenario drawn from the given sets.
InitWith(clocks, paths, rhythms, widths, heights, drivers, props) ==
    /\ now \in clocks
    /\ webdriver \in drivers
    /\ outerWidth \in widths
    /\ outerHeight \in heights
    /\ formStartTime = now
    /\ mouseMovements = << >>
    /\ hasMouseMovement = FALSE
    /\ typingPatterns = << >>
    /\ lastKeyTime = 0
    /\ focusEvents = 0
    /\ botScore = 0
    /\ detectionReasons = << >>
    /\ stats = [ mouseMovements |-> 0, typingEvents |-> 0, focusEvents |-> 0,
                 timeSpent |-> 0 ]
    /\ hasTriggered = FALSE
    /\ isBotDetected = FALSE
    /\ honeypotScore = 0
    /\ isSubmitting = FALSE
    /\ pending = 0
    /\ hasOnBotDetected \in props
    /\ email = ""
    /\ mousePath \in paths
    /\ keyGaps \in rhythms
    /\ pointer = [ clientX |-> 100, clientY |-> 100 ]
    /\ mouseLog = << >>
    /\ keyLog = << >>
    /\ returned = NoResult
    /\ ticks = 0
    /\ focusCalls = 0
    /\ honeypotCallbacks = 0
    /\ honeypotFills = 0
    /\ filledSinceReset = FALSE
    /\ honeypotCalls = 0
    /\ submits = 0
    /\ merged = NoResult
    /\ onSubmitCalls = << >>
    /\ onBotDetectedCalls = << >>
    /\ consoleErrors = 0
    /\ threw = FALSE
    \* the effect has run once, at mount
    /\ mounted = TRUE
    /\ mouseListeners = { "trackMouseMovement" }
    /\ keyListeners = { "trackKeyPress" }
    /\ effectRuns = 1
    /\ cleanupRuns = 0
    /\ unheard = 0

\* A mousemove event reaches the document listener: the pointer has moved by
\* the next step of its path.
MouseMove ==
    LET step == mousePath[(Len(mouseLog) % Len(mousePath)) + 1]
        e == [ clientX |-> pointer.clientX + step[1],
               clientY |-> pointer.clientY + step[2] ]
    IN  /\ pointer' = e
        /\ Forget
        /\ IF "trackMouseMovement" \in mouseListeners
           THEN /\ trackMouseMovement(e)
                /\ UNCHANGED unheard
           ELSE /\ unheard < MaxUnheard
                /\ unheard' = unheard + 1
                /\ UNCHANGED << mouseMovements, hasMouseMovement, mouseLog, stats >>
        /\ UNCHANGED << now, hostVars, formStartTime, typingPatterns, lastKeyTime,
                        focusEvents, botScore, detectionReasons, honeypotVars,
                        formVars, mousePath, keyGaps, keyLog, ticks, focusCalls,
                        honeypotCallbacks, honeypotFills, filledSinceReset, honeypotCalls,
                        submits, mounted, mouseListeners, keyListeners,
                        effectRuns, cleanupRuns >>

\* A keydown event reaches the document listener, the next gap of the typing
\* rhythm after the previous event.
KeyDown ==
    LET gap == keyGaps[(Len(keyLog) % Len(keyGaps)) + 1]
    IN  /\ now' = now + gap
        /\ Forget
        /\ IF "trackKeyPress" \in keyListeners
           THEN /\ trackKeyPress([ key |-> "a" ], now')
                /\ UNCHANGED unheard
           ELSE /\ unheard < MaxUnheard
                /\ unheard' = unheard + 1
                /\ UNCHANGED << typingPatterns, lastKeyTime, keyLog >>
        /\ UNCHANGED << hostVars, formStartTime, mouseMovements, hasMouseMovement,
                        focusEvents, botScore, detectionReasons, stats,
                        honeypotVars, formVars, inputVars, mouseLog, ticks,
                        focusCalls, honeypotCallbacks, honeypotFills,
                        filledSinceReset, honeypotCalls, submits, mounted, mouseListeners,
                        keyListeners, effectRuns, cleanupRuns >>

\* A focus event bubbles to the form's wrapper: onFocus={handleFieldFocus}
Focus ==
    /\ focusEvents < MaxFocus
    /\ handleFieldFocus
    /\ focusCalls' = focusCalls + 1
    /\ Forget
    /\ UNCHANGED << lifecycleVars, now, hostVars, formStartTime, mouseMovements, hasMouseMovement,
                    typingPatterns, lastKeyTime, botScore, detectionReasons,
                    honeypotVars, formVars, inputVars, mouseLog, keyLog, ticks,
                    honeypotCallbacks, honeypotFills, filledSinceReset, honeypotCalls,
                    submits >>

\* Several fields are focused within one batch (one act, one render).
FocusBatch ==
    \E k \in 2..(MaxFocus - focusEvents) :
        /\ handleFieldFocusBatch(k)
        /\ focusCalls' = focusCalls + k
        /\ Forget
        /\ UNCHANGED << lifecycleVars, now, hostVars, formStartTime, mouseMovements,
                        hasMouseMovement, typingPatterns, lastKeyTime, botScore,
                        detectionReasons, honeypotVars, formVars, inputVars,
                        mouseLog, keyLog, ticks, honeypotCallbacks,
                        honeypotFills, filledSinceReset, honeypotCalls, submits >>

\* Time passes.
Tick ==
    /\ ticks < MaxTicks
    /\ \E d \in TickValues : now' = now + d
    /\ ticks' = ticks + 1
    /\ Forget
    /\ UNCHANGED << lifecycleVars, hostVars, hookVars, honeypotVars, formVars, inputVars,
                    mouseLog, keyLog, focusCalls, honeypotCallbacks,
                    honeypotFills, filledSinceReset, honeypotCalls, submits >>

\* The user leaves the form alone for a few seconds.
Idle ==
    /\ ticks < MaxTicks
    /\ \E d \in IdleValues : now' = now + d
    /\ ticks' = ticks + 1
    /\ Forget
    /\ UNCHANGED << lifecycleVars, hostVars, hookVars, honeypotVars, formVars, inputVars,
                    mouseLog, keyLog, focusCalls, honeypotCallbacks,
                    honeypotFills, filledSinceReset, honeypotCalls, submits >>

Analyze_Draining ==
    /\ returned' = analyzeBehavior(now)
    /\ mouseMovements' = << >>
    /\ UNCHANGED << lifecycleVars, now, hostVars, formStartTime, hasMouseMovement,
                    typingPatterns, lastKeyTime, focusEvents, botScore,
                    detectionReasons, stats, honeypotVars, formVars, inputVars,
                    mouseLog, keyLog, ticks, focusCalls, honeypotCallbacks,
                    honeypotFills, filledSinceReset, honeypotCalls, submitObs >>

\* The component using the hook is deactivated: React runs the effect's cleanup.
Unmount ==
    /\ mounted
    /\ cleanupListeners
    /\ mounted' = FALSE
    /\ cleanupRuns' = cleanupRuns + 1
    /\ Forget
    /\ UNCHANGED << now, hostVars, hookVars, honeypotVars, formVars, inputVars,
                    mouseLog, keyLog, ticks, focusCalls, honeypotCallbacks,
                    honeypotFills, filledSinceReset, honeypotCalls, submits, effectRuns,
                    unheard >>

\* The component is activated again with its state kept (as React's strict
\* mode does after the first cleanup): the effect's body runs again.
Remount ==
    /\ ~mounted
    /\ effectRuns < MaxMounts
    /\ setupListeners
    /\ mounted' = TRUE
    /\ effectRuns' = effectRuns + 1
    /\ Forget
    /\ UNCHANGED << now, hostVars, hookVars, honeypotVars, formVars, inputVars,
                    mouseLog, keyLog, ticks, focusCalls, honeypotCallbacks,
                    honeypotFills, filledSinceReset, honeypotCalls, submits, cleanupRuns,
                    unheard >>

\* A caller of the hook calls analyzeBehavior.
Analyze ==
    /\ returned' = analyzeBehavior(now)
    /\ UNCHANGED << lifecycleVars, now, hostVars, hookVars, honeypotVars, formVars, inputVars,
                    mouseLog, keyLog, ticks, focusCalls, honeypotCallbacks,
                    honeypotFills, filledSinceReset, honeypotCalls, submitObs >>

\* A change event of one of the honeypot inputs.
HoneypotChange ==
    \E fieldName \in DEFAULT_HONEYPOT_FIELDS, value \in FieldValues :
        /\ Trim(value) # << >> => honeypotFills < MaxHoneypotFills
        /\ handleFieldChange(value)
        /\ honeypotFills' = IF Trim(value) # << >> THEN honeypotFills + 1
                            ELSE honeypotFills
        /\ filledSinceReset' = (filledSinceReset \/ Trim(value) # << >>)
        \* the hook's state changed: the component using it re-renders
        /\ stats' = IF isBotDetected' # isBotDetected
                    THEN StatsOf(mouseMovements, typingPatterns, focusEvents, now)
                    ELSE stats
        /\ Forget
        /\ UNCHANGED << lifecycleVars, now, hostVars, formStartTime, mouseMovements,
                        hasMouseMovement, typingPatterns, lastKeyTime, focusEvents,
                        botScore, detectionReasons, formVars, inputVars, mouseLog,
                        keyLog, ticks, focusCalls, submits >>

\* A caller of useHoneypot calls handleBotDetected itself.
CallHandleBotDetected ==
    /\ honeypotScore < 50 * MaxHoneypotCalls
    /\ handleBotDetected
    /\ stats' = StatsOf(mouseMovements, typingPatterns, focusEvents, now)
    /\ Forget
    /\ UNCHANGED << lifecycleVars, now, hostVars, formStartTime, mouseMovements, hasMouseMovement,
                    typingPatterns, lastKeyTime, focusEvents, botScore,
                    detectionReasons, hasTriggered, formVars, inputVars, mouseLog,
                    keyLog, ticks, focusCalls, honeypotCallbacks, honeypotFills,
                    filledSinceReset, submits >>

\* A caller of useHoneypot calls resetDetection.
CallResetDetection ==
    /\ resetDetection
    /\ filledSinceReset' = FALSE
    /\ stats' = IF isBotDetected \/ honeypotScore # 0
                THEN StatsOf(mouseMovements, typingPatterns, focusEvents, now)
                ELSE stats
    /\ Forget
    /\ UNCHANGED << lifecycleVars, now, hostVars, formStartTime, mouseMovements, hasMouseMovement,
                    typingPatterns, lastKeyTime, focusEvents, botScore,
                    detectionReasons, hasTriggered, formVars, inputVars, mouseLog,
                    keyLog, ticks, focusCalls, honeypotCallbacks, honeypotFills,
                    submits >>

\* The user edits the form's child input.
EditField ==
    /\ \E v \in FormValues : v # email /\ email' = v
    /\ Forget
    /\ UNCHANGED << lifecycleVars, now, hostVars, hookVars, honeypotVars, isSubmitting, pending,
                    hasOnBotDetected, inputVars, mouseLog, keyLog, ticks,
                    focusCalls, honeypotCallbacks, honeypotFills,
                    filledSinceReset, honeypotCalls, submits >>

\* The user clicks the submit button, which is disabled while isSubmitting.
Submit ==
    /\ ~SubmitDisabled
    /\ submits < MaxSubmits
    /\ \E throws \in BOOLEAN : handleSubmit(throws)
    /\ UNCHANGED << lifecycleVars, now, hostVars, formStartTime, mouseMovements, hasMouseMovement,
                    typingPatterns, lastKeyTime, focusEvents, honeypotVars,
                    hasOnBotDetected, email, inputVars, mouseLog, keyLog, ticks,
                    focusCalls, honeypotCallbacks, honeypotFills,
                    filledSinceReset, honeypotCalls >>

\* The promise onSubmit returned resolves or rejects.
Settle ==
    /\ pending > 0
    /\ \E rejected \in BOOLEAN : onSubmitSettled(rejected)
    /\ returned' = NoResult
    /\ UNCHANGED << lifecycleVars, now, hostVars, formStartTime, mouseMovements, hasMouseMovement,
                    typingPatterns, lastKeyTime, focusEvents, botScore,
                    detectionReasons, honeypotVars, hasOnBotDetected, email,
                    inputVars, mouseLog, keyLog, ticks, focusCalls,
                    honeypotCallbacks, honeypotFills, filledSinceReset, honeypotCalls, submits,
                    merged, onSubmitCalls, onBotDetectedCalls, threw >>

\* ---------------------------------------------------------- specifications
Cycle(a, b) == << a, b >>
AllPaths == { Cycle(a, b) : a \in MouseSteps, b \in MouseSteps }
AllRhythms == { Cycle(a, b) : a \in KeyGapValues, b \in KeyGapValues }
OnePath == { Cycle(<<-10, 10>>, <<5, 0>>) }
OneRhythm == { Cycle(30, 50) }
ScorePaths == { Cycle(<<0, 0>>, <<2, -2>>), Cycle(<<-10, 10>>, <<5, 0>>) }
ScoreRhythms == { Cycle(30, 30), Cycle(50, 50), Cycle(10, 80) }

\* BotProtectedForm: both hooks, the honeypot and the submit flow.  The pointer
\* is moved, if at all, at the start of the session; nothing is typed.
Init ==
    InitWith({ 5000 }, OnePath, OneRhythm, { 1024 }, { 1024 }, { FALSE }, BOOLEAN)

Next ==
    \/ ticks = 0 /\ submits = 0 /\ Len(mouseLog) < FormMouseEvents /\ MouseMove
    \/ Focus
    \/ Tick
    \/ HoneypotChange
    \/ EditField
    \/ Submit
    \/ Settle

Spec == Init /\ [][Next]_vars

\* useBotDetection alone, under long pointer paths.
InitMouse ==
    InitWith({ 5000 }, AllPaths, OneRhythm, { 1024 }, { 1024 }, { FALSE }, { FALSE })

NextMouse ==
    \/ Len(mouseLog) < MaxMouseEvents /\ MouseMove
    \/ Analyze

SpecMouse == InitMouse /\ [][NextMouse]_vars

\* useBotDetection alone, under long typing rhythms.
InitKeys ==
    InitWith(StartClocks, OnePath, AllRhythms, { 1024 }, { 1024 }, { FALSE }, { FALSE })

NextKeys ==
    \/ Len(keyLog) < MaxKeyEvents /\ KeyDown
    \/ Analyze

SpecKeys == InitKeys /\ [][NextKeys]_vars

\* useBotDetection alone: every rule of the scorer.  The scenario is in
\* phases: the user waits, then focuses fields, then moves the pointer, then
\* types.
InitScore ==
    InitWith({ 5000 }, ScorePaths, ScoreRhythms, OuterSizes, OuterSizes, BOOLEAN,
             { FALSE })

NextScore ==
    \/ focusEvents = 0 /\ mouseLog = << >> /\ keyLog = << >> /\ Tick
    \/ mouseLog = << >> /\ keyLog = << >> /\ Focus
    \/ mouseLog = << >> /\ keyLog = << >> /\ FocusBatch
    \/ keyLog = << >> /\ Len(mouseLog) < ScoreMouseEvents /\ MouseMove
    \/ Len(keyLog) < ScoreKeyEvents /\ KeyDown
    \/ Analyze

SpecScore == InitScore /\ [][NextScore]_vars

\* useBotDetection alone, in the session of a person: a pause, focus events,
\* wide pointer moves, then typing at an uneven rhythm.
LegitPaths ==
    { Cycle(<<-10, 10>>, <<15, -8>>), Cycle(<<20, 0>>, <<-30, 25>>),
      Cycle(<<2, -2>>, <<-10, 10>>) }
LegitRhythms == { Cycle(70, 200), Cycle(120, 80), Cycle(100, 100) }

InitLegit ==
    InitWith({ 700, 5000 }, LegitPaths, LegitRhythms, OuterSizes, { 1024 },
             { FALSE }, { FALSE })

NextLegit ==
    \/ focusEvents = 0 /\ mouseLog = << >> /\ keyLog = << >> /\ Idle
    \/ mouseLog = << >> /\ keyLog = << >> /\ Focus
    \/ keyLog = << >> /\ Len(mouseLog) < LegitMouseEvents /\ MouseMove
    \/ Len(keyLog) < LegitKeyEvents /\ KeyDown
    \/ Analyze

SpecLegit == InitLegit /\ [][NextLegit]_vars

\* BotProtectedForm at the end of a session in which every rule of the scorer
\* can apply: honeypot changes, a wait, focus events, pointer moves, typing,
\* then the submissions.
SubmitRhythms == { Cycle(30, 30), Cycle(10, 80) }

InitSubmit ==
    InitWith({ 5000 }, ScorePaths, SubmitRhythms, OuterSizes, { 1024 }, BOOLEAN,
             { TRUE })

NextSubmit ==
    \/ /\ submits = 0 /\ ticks = 0 /\ focusEvents = 0
       /\ mouseLog = << >> /\ keyLog = << >>
       /\ HoneypotChange
    \/ /\ submits = 0 /\ focusEvents = 0 /\ mouseLog = << >> /\ keyLog = << >>
       /\ Tick
    \/ submits = 0 /\ mouseLog = << >> /\ keyLog = << >> /\ Focus
    \/ /\ submits = 0 /\ keyLog = << >> /\ Len(mouseLog) < ScoreMouseEvents
       /\ MouseMove
    \/ submits = 0 /\ Len(keyLog) < ScoreKeyEvents /\ KeyDown
    \/ Submit
    \/ Settle

SpecSubmit == InitSubmit /\ [][NextSubmit]_vars

\* useBotDetection alone, deactivated and activated again while events are
\* dispatched to the document.
InitLifecycle ==
    InitWith({ 5000 }, OnePath, OneRhythm, { 1024 }, { 1024 }, { FALSE }, { FALSE })

NextLifecycle ==
    \/ Len(mouseLog) < LifeEvents /\ MouseMove
    \/ Len(keyLog) < LifeEvents /\ KeyDown
    \/ Unmount
    \/ Remount
    \/ Analyze

SpecLifecycle == InitLifecycle /\ [][NextLifecycle]_vars

\* A custom form that uses useHoneypot and useBotDetection directly.
InitHooks ==
    InitWith({ 5000 }, OnePath, OneRhythm, { 1024 }, { 1024 }, { FALSE }, { FALSE })

NextHooks ==
    \/ Focus
    \/ Tick
    \/ HoneypotChange
    \/ CallHandleBotDetected
    \/ CallResetDetection
    \/ Analyze

SpecHooks == InitHooks /\ [][NextHooks]_vars

\* A component that calls analyzeBehavior while its BotProtectedForm is used.
InitFrame ==
    InitWith({ 5000 }, OnePath, OneRhythm, { 1024 }, { 1024 }, { FALSE }, { FALSE })

NextFrame ==
    \/ ticks = 0 /\ keyLog = << >> /\ Len(mouseLog) < LifeEvents /\ MouseMove
    \/ ticks = 0 /\ Len(keyLog) < LifeEvents /\ KeyDown
    \/ Tick
    \/ Analyze
    \/ Submit
    \/ Settle

SpecFrame == InitFrame /\ [][NextFrame]_vars

\* useBotDetection alone, in a long session: time passes and fields are focused
\* before the pointer activity or after it, and the buffer overflows.
InitLong ==
    InitWith({ 5000 }, OnePath, OneRhythm, { 1024 }, { 1024 }, { FALSE }, { FALSE })

NextLong ==
    \/ Len(mouseLog) < MaxMouseEvents /\ MouseMove
    \/ Len(mouseLog) \in { 0, MaxMouseEvents } /\ Tick
    \/ Len(mouseLog) \in { 0, MaxMouseEvents } /\ Focus
    \/ Analyze

SpecLong == InitLong /\ [][NextLong]_vars

\* BotProtectedForm with an onSubmit whose promise settles: a pending promise
\* is resolved or rejected after finitely many other events.
InitLive ==
    InitWith({ 5000 }, OnePath, OneRhythm, { 1024 }, { 1024 }, { FALSE }, BOOLEAN)

NextLive ==
    \/ Focus
    \/ Tick
    \/ HoneypotChange
    \/ EditField
    \/ Submit
    \/ Settle

SpecLive == InitLive /\ [][NextLive]_vars /\ WF_vars(Settle)

\* ------------------------------------------------------------------ claims
Has(seq, x) == \E i \in DOMAIN seq : seq[i] = x

R1 == "No natural mouse movement detected"
R2 == "Unnatural mouse movement patterns"
R3 == "Unnaturally consistent typing pattern"
R4 == "Superhuman typing speed detected"
R5 == "Form filled too quickly"
R6 == "Insufficient focus interactions"
R7 == "Automated browser detected"
R8 == "Headless browser indicators"

Submitted == merged # NoResult
Analyzed == returned # NoResult

\* C1: at submission, a triggered honeypot makes the merged result a bot,
\* whatever the behavioural score (0 included).
C1_HoneypotDispositive ==
    (Submitted /\ merged.honeypotTriggered) => merged.isBot

\* a submission with behavioural score 0 and the honeypot triggered
C1_Witness ==
    /\ Submitted
    /\ Analyzed
    /\ returned.score = 0
    /\ merged.honeypotTriggered
    /\ merged.isBot

\* C2: a submission whose merged result is a bot never invokes onSubmit, and
\* invokes onBotDetected, when provided, exactly once, with the merged result.
C2_BotNeverSubmits ==
    (Submitted /\ merged.isBot) =>
        /\ onSubmitCalls = << >>
        /\ onBotDetectedCalls = IF hasOnBotDetected THEN << merged >> ELSE << >>
        /\ pending = 0

\* a bot submission on behavioural score alone, with the callback provided
C2_Witness ==
    /\ Submitted
    /\ merged.isBot
    /\ ~merged.honeypotTriggered
    /\ hasOnBotDetected
    /\ Len(onBotDetectedCalls) = 1
    /\ onBotDetectedCalls[1].score = merged.score

\* C3: a submission whose merged result is no bot invokes onSubmit exactly
\* once, with the form data and the merged result (isBot false,
\* honeypotTriggered false, score the behavioural score), and never invokes
\* onBotDetected: at the submission step, and for as long as the call is
\* pending.
C3_AtSubmission ==
    (submits' = submits + 1 /\ ~merged'.isBot) =>
        /\ onSubmitCalls' = << [ data |-> [ email |-> email ],
                                botDetection |-> merged' ] >>
        /\ onBotDetectedCalls' = << >>
        /\ ~merged'.honeypotTriggered
        /\ merged'.score = returned'.score
        /\ merged'.score = analyzeBehavior(now).score

C3_WhilePending ==
    (Submitted /\ ~merged.isBot) =>
        /\ Len(onSubmitCalls) = 1
        /\ onSubmitCalls[1].botDetection = merged
        /\ onBotDetectedCalls = << >>

C3_NonBotSubmitsOnce == [][C3_AtSubmission]_vars /\ []C3_WhilePending

\* a non-bot submission whose onSubmit call is pending
C3_Witness ==
    /\ Submitted
    /\ ~merged.isBot
    /\ Len(onSubmitCalls) = 1
    /\ onSubmitCalls[1].data.email = "test@example.com"
    /\ pending = 1

\* C4: the Honeypot invokes onBotDetected exactly once, at the first change
\* whose trimmed value is non-empty: never before it (whitespace-only changes
\* neither invoke it nor latch) and never again after it.
C4_HoneypotFiresOnce ==
    /\ honeypotCallbacks = (IF honeypotFills > 0 THEN 1 ELSE 0)
    /\ hasTriggered = (honeypotFills > 0)

\* two non-blank changes, one callback
C4_Witness ==
    /\ honeypotFills = 2
    /\ honeypotCallbacks = 1

\* C5: after resetDetection, a non-whitespace fill of a honeypot field makes
\* isBotDetected true again.
C5_ResetRearms == filledSinceReset => isBotDetected

\* C6: every analyzeBehavior result has isBot = (score >= 50), 50 included.
C6_IsBotThreshold ==
    Analyzed => (returned.isBot <=> returned.score >= 50)

\* a behavioural score of exactly 50
C6_Witness ==
    /\ Analyzed
    /\ returned.score = 50
    /\ returned.isBot

\* C7: the score of an analyzeBehavior result is the sum of the weights of
\* the rules whose reason it lists; no rule is listed twice.
WeightOf(reason) ==
    CASE reason = R1 -> 30
      [] reason = R2 -> 20
      [] reason = R3 -> 15
      [] reason = R4 -> 20
      [] reason = R5 -> 40
      [] reason = R6 -> 15
      [] reason = R7 -> 25
      [] reason = R8 -> 35
      [] OTHER -> -1000

C7_ScoreIsSumOfWeights ==
    Analyzed =>
        /\ returned.score
               = SumSeq([ i \in DOMAIN returned.reasons |-> WeightOf(returned.reasons[i]) ])
        /\ \A i, j \in DOMAIN returned.reasons :
               returned.reasons[i] = returned.reasons[j] => i = j
        /\ \A i \in DOMAIN returned.reasons :
               returned.reasons[i] \in { R1, R2, R3, R4, R5, R6, R7, R8 }

\* every rule but R1 fires at once
C7_Witness ==
    /\ Analyzed
    /\ returned.reasons = << R2, R3, R4, R5, R6, R7, R8 >>
    /\ returned.score = 170

\* C8: with fewer than 5 retained mouse samples the result lists R1 and not
\* R2, and no result lists both.
C8_MouseRulesExclusive ==
    Analyzed =>
        /\ Len(mouseMovements) < 5 =>
               Has(returned.reasons, R1) /\ ~Has(returned.reasons, R2)
        /\ ~(Has(returned.reasons, R1) /\ Has(returned.reasons, R2))

\* four samples of a nearly still pointer: R2's condition holds, R1 is listed
C8_Witness ==
    /\ Analyzed
    /\ Len(mouseMovements) = 4
    /\ LowVariation(mouseMovements)
    /\ Has(returned.reasons, R1)

\* The last n elements of a log, in order.
LastOf(log, n) ==
    LET k == IF Len(log) < n THEN Len(log) ELSE n
    IN  [ i \in 1..k |-> log[Len(log) - k + i] ]

\* C9: the mouse buffer holds exactly the last min(n, 50) of the n samples
\* received, in arrival order.
C9_MouseBufferLast50 ==
    /\ mouseMovements = LastOf(mouseLog, 50)
    /\ Len(mouseMovements) <= 50

\* 52 events received, the two oldest evicted
C9_Witness ==
    /\ Len(mouseLog) = 52
    /\ Len(mouseMovements) = 50
    /\ mouseMovements[1] = mouseLog[3]
    /\ mouseMovements[1] # mouseLog[1]

\* C10: the key buffer holds exactly the last min(n, 100) of the n samples
\* received, in arrival order.
C10_KeyBufferLast100 ==
    /\ typingPatterns = LastOf(keyLog, 100)
    /\ Len(typingPatterns) <= 100

\* 102 events received, the two oldest evicted
C10_Witness ==
    /\ Len(keyLog) = 102
    /\ Len(typingPatterns) = 100
    /\ typingPatterns[1] = keyLog[3]
    /\ typingPatterns[1] # keyLog[1]

\* C11: every keydown but the first of the session is recorded with delta =
\* its timestamp minus the timestamp of the keydown received just before it,
\* also when that earlier sample is no longer in the buffer.
C11_DeltaFromPreviousKey ==
    /\ \A i \in 2..Len(keyLog) :
           keyLog[i].timeSinceLastKey
               = keyLog[i].timestamp - keyLog[i - 1].timestamp
    /\ \A j \in DOMAIN typingPatterns :
           LET i == Len(keyLog) - Len(typingPatterns) + j
           IN  i > 1 =>
                   typingPatterns[j].timeSinceLastKey
                       = typingPatterns[j].timestamp - keyLog[i - 1].timestamp

\* the oldest retained sample keeps the delta to a sample that was evicted
C11_Witness ==
    /\ Len(keyLog) = 102
    /\ Len(typingPatterns) = 100
    /\ typingPatterns[1].timeSinceLastKey = 30
    /\ typingPatterns[1].timestamp - keyLog[2].timestamp = 30
    /\ \A j \in DOMAIN typingPatterns : typingPatterns[j] # keyLog[2]

\* C12: the first keydown of a session is recorded with delta 0, whatever
\* the clock shows at that event, so that it is never one of the deltas
\* strictly between 0 and 1000 ms.
C12_FirstDeltaZero ==
    keyLog # << >> =>
        /\ keyLog[1].timeSinceLastKey = 0
        /\ ~(keyLog[1].timeSinceLastKey > 0 /\ keyLog[1].timeSinceLastKey < 1000)

\* The distances |dx| + |dy| between consecutive samples: k - 1 of them for
\* k samples.
StepDistances(samples) ==
    [ i \in 1..(Len(samples) - 1) |->
        Abs(samples[i + 1].x - samples[i].x)
        + Abs(samples[i + 1].y - samples[i].y) ]

\* C13: with at least 5 retained mouse samples, R2 is listed if and only if
\* the average of the k - 1 step distances between the most recent (at most
\* 20) k samples is below 5.
C13_R2AverageStep ==
    (Analyzed /\ Len(mouseMovements) >= 5) =>
        LET steps == StepDistances(LastOf(mouseMovements, 20))
        IN  Has(returned.reasons, R2) <=> SumSeq(steps) < 5 * Len(steps)

\* The deltas of the most recent (at most 20) retained key samples that lie
\* strictly between 0 and 1000 ms.
QualifyingDeltas ==
    LET recent == LastOf(typingPatterns, 20)
        InRange(d) == 0 < d /\ d < 1000
    IN  SelectSeq([ i \in DOMAIN recent |-> recent[i].timeSinceLastKey ], InRange)

\* mean(q) < 50
MeanBelow50(q) == SumSeq(q) < 50 * Len(q)

\* The population variance of q is below 100: with n = Len(q) and S its sum,
\* sum((q[i] - S/n)^2) / n < 100, multiplied by n^3.
VarianceBelow100(q) ==
    LET n == Len(q)
        S == SumSeq(q)
        dev == [ i \in DOMAIN q |-> (n * q[i] - S) * (n * q[i] - S) ]
    IN  SumSeq(dev) < 100 * n * n * n

\* R3 and R4 are listed exactly as the variance and the mean of the
\* qualifying deltas say.
TypingRulesEvaluated ==
    /\ Has(returned.reasons, R3) <=> VarianceBelow100(QualifyingDeltas)
    /\ Has(returned.reasons, R4) <=> MeanBelow50(QualifyingDeltas)

TypingRulesSilent ==
    ~Has(returned.reasons, R3) /\ ~Has(returned.reasons, R4)

\* C14, as stated: R3 and R4 are evaluated exactly when at least 10 key
\* samples are retained and at least 6 deltas qualify.
C14_TypingPreconditionTen ==
    Analyzed =>
        IF Len(typingPatterns) >= 10 /\ Len(QualifyingDeltas) >= 6
        THEN TypingRulesEvaluated
        ELSE TypingRulesSilent

\* C14, amended: R3 and R4 are evaluated exactly when at least 11 key samples
\* are retained and at least 6 of the deltas of the most recent (at most 20)
\* samples qualify; otherwise neither is listed.
C14_TypingPrecondition ==
    Analyzed =>
        IF Len(typingPatterns) >= 11 /\ Len(QualifyingDeltas) >= 6
        THEN TypingRulesEvaluated
        ELSE TypingRulesSilent

\* 11 samples of which exactly 6 qualify, and both rules listed
C14_Witness ==
    /\ Analyzed
    /\ Len(typingPatterns) = 11
    /\ Len(QualifyingDeltas) = 6
    /\ Has(returned.reasons, R3)
    /\ Has(returned.reasons, R4)

\* The rules' precondition, as the code has it (C14).
TypingPrecondition ==
    Len(typingPatterns) >= 11 /\ Len(QualifyingDeltas) >= 6

\* The session's keystrokes so far are exactly 20, each d ms after the one
\* before it.
TwentyKeysAt(d) ==
    /\ Len(keyLog) = 20
    /\ \A i \in 2..20 : keyLog[i].timestamp - keyLog[i - 1].timestamp = d

C17_R5Elapsed ==
    /\ formStartTime = now
    /\ [][formStartTime' = formStartTime]_vars
    /\ [](Analyzed => (Has(returned.reasons, R5) <=> now - formStartTime < 2000))

\* scored exactly 2000 ms after the start: R5 is not listed
C17_Witness ==
    /\ Analyzed
    /\ now - formStartTime = 2000
    /\ ~Has(returned.reasons, R5)

\* C18: the focus counter is 0 at the start and always the number of
\* handleFieldFocus calls made so far, batched or not; no other operation
\* changes it; R6 is listed if and only if it is below 2.
C18_FocusCounter ==
    /\ focusEvents = focusCalls
    /\ Analyzed => (Has(returned.reasons, R6) <=> focusCalls < 2)

\* two calls: the counter is 2 and R6 is not listed
C18_Witness ==
    /\ Analyzed
    /\ focusCalls = 2
    /\ focusEvents = 2
    /\ ~Has(returned.reasons, R6)

\* C19, as stated: R8 is listed if and only if both outer dimensions are 0.
C19_R8BothAxes ==
    Analyzed =>
        (Has(returned.reasons, R8) <=> (outerWidth = 0 /\ outerHeight = 0))

\* C19, amended: R8 is listed if and only if at least one of the outer
\* dimensions of the window is 0; one zero dimension is enough.
C19_R8EitherAxis ==
    Analyzed =>
        (Has(returned.reasons, R8) <=> (outerWidth = 0 \/ outerHeight = 0))

\* a window of zero width and non-zero height: R8 is listed
C19_Witness ==
    /\ Analyzed
    /\ outerWidth = 0
    /\ outerHeight # 0
    /\ Has(returned.reasons, R8)

\* A session scored before any pointer, key or focus event, less than
\* 2000 ms after its start.
FreshSession ==
    /\ Analyzed
    /\ now - formStartTime < 2000
    /\ mouseLog = << >>
    /\ keyLog = << >>
    /\ focusCalls = 0

\* C20: scoring a fresh session lists R1, R5 and R6, gives a score of at
\* least 85, exactly 85 when neither environment rule applies, and isBot.
C20_ScenarioA ==
    FreshSession =>
        /\ Has(returned.reasons, R1)
        /\ Has(returned.reasons, R5)
        /\ Has(returned.reasons, R6)
        /\ returned.score >= 85
        /\ (~webdriver /\ outerWidth # 0 /\ outerHeight # 0) =>
               /\ returned.score = 85
               /\ returned.reasons = << R1, R5, R6 >>
        /\ returned.isBot

\* a fresh session in an ordinary browser: score 85
C20_Witness ==
    /\ FreshSession
    /\ ~webdriver
    /\ outerWidth # 0
    /\ outerHeight # 0
    /\ returned.score = 85
    /\ returned.isBot

\* The gaps between consecutive keydowns of the session.
KeyGaps ==
    [ i \in 1..(Len(keyLog) - 1) |-> keyLog[i + 1].timestamp - keyLog[i].timestamp ]

\* Every gap is between 70 and 200 ms and differs from the gap before it by
\* at least 30 ms.
NaturalTyping ==
    /\ \A i \in DOMAIN KeyGaps : 70 <= KeyGaps[i] /\ KeyGaps[i] <= 200
    /\ \A i \in DOMAIN KeyGaps : i > 1 => Abs(KeyGaps[i] - KeyGaps[i - 1]) >= 30

\* A session scored at least 3000 ms after its start, with at least 10 mouse
\* samples whose steps are each at least 20 px, at least 2 focus events, no
\* keystrokes or natural typing, and neither environment rule applying.
LegitimateSession ==
    /\ Analyzed
    /\ now - formStartTime >= 3000
    /\ Len(mouseLog) >= 10
    /\ \A i \in DOMAIN StepDistances(mouseLog) : StepDistances(mouseLog)[i] >= 20
    /\ focusCalls >= 2
    /\ keyLog = << >> \/ NaturalTyping
    /\ ~webdriver
    /\ outerWidth # 0
    /\ outerHeight # 0

\* C21: a legitimate session is not flagged: its result lists none of R1,
\* R5, R6, its score is 0 and isBot is false.
C21_LegitimateSessionPasses ==
    LegitimateSession =>
        /\ ~Has(returned.reasons, R1)
        /\ ~Has(returned.reasons, R5)
        /\ ~Has(returned.reasons, R6)
        /\ returned.score = 0
        /\ returned.reasons = << >>
        /\ ~returned.isBot

\* a legitimate session with 12 keystrokes, enough for the typing rules to
\* be evaluated
C21_Witness ==
    /\ LegitimateSession
    /\ Len(keyLog) = 12
    /\ TypingPrecondition
    /\ returned.score = 0

C23_MergedScore ==
    (Submitted /\ Analyzed) =>
        /\ merged.honeypotTriggered = isBotDetected
        /\ merged.score = returned.score + (IF isBotDetected THEN 100 ELSE 0)

\* a submission after the honeypot fired: useHoneypot's score is 50, the
\* merged score is the behavioural score plus 100
C23_Witness ==
    /\ Submitted
    /\ Analyzed
    /\ merged.honeypotTriggered
    /\ honeypotScore = 50
    /\ merged.score = returned.score + 100

HoneypotReason == "Honeypot field filled"

\* The place of a reason in the fixed order R1 or R2, R3, R4, R5, R6, R7, R8,
\* honeypot.
RankOf(reason) ==
    CASE reason = R1 -> 1
      [] reason = R2 -> 1
      [] reason = R3 -> 3
      [] reason = R4 -> 4
      [] reason = R5 -> 5
      [] reason = R6 -> 6
      [] reason = R7 -> 7
      [] reason = R8 -> 8
      [] reason = HoneypotReason -> 9
      [] OTHER -> 0

\* C24: the reasons of the merged result are the fired behavioural rules'
\* messages in the fixed rule order, followed by 'Honeypot field filled' as
\* the last element if and only if the honeypot is triggered; no reason
\* appears twice.
C24_MergedReasonsOrder ==
    Submitted =>
        /\ \A i \in DOMAIN merged.reasons : RankOf(merged.reasons[i]) > 0
        /\ \A i, j \in DOMAIN merged.reasons :
               i < j => RankOf(merged.reasons[i]) < RankOf(merged.reasons[j])
        /\ Has(merged.reasons, HoneypotReason) <=> merged.honeypotTriggered
        /\ Analyzed =>
               /\ Len(merged.reasons)
                      = Len(returned.reasons) + (IF merged.honeypotTriggered THEN 1 ELSE 0)
               /\ SubSeq(merged.reasons, 1, Len(returned.reasons)) = returned.reasons
               /\ returned.reasons = analyzeBehavior(now).reasons

\* seven behavioural reasons, then the honeypot's
C24_Witness ==
    /\ Submitted
    /\ merged.reasons = << R2, R3, R4, R5, R6, R7, R8, HoneypotReason >>

\* C25: whenever a call of the caller's onSubmit is pending, the submitting
\* flag is true.
C25_SubmittingWhilePending == pending > 0 => isSubmitting

\* the second submission of the form is pending
C25_Witness ==
    /\ pending = 1
    /\ submits = 2
    /\ isSubmitting
    /\ Len(onSubmitCalls) = 1

\* C26: a failure of onSubmit (a throw or a rejection) is caught and logged
\* once, the submitting flag is cleared, no call stays pending, and a
\* following submission is processed as any other.
C26_AfterFailure ==
    (consoleErrors > 0 /\ Len(onSubmitCalls) = 1) =>
        /\ consoleErrors = 1
        /\ ~isSubmitting
        /\ ~SubmitDisabled
        /\ pending = 0

C26_NextSubmission ==
    (consoleErrors > 0 /\ Len(onSubmitCalls) = 1 /\ submits' = submits + 1) =>
        /\ merged'.score = analyzeBehavior(now).score
                           + (IF isBotDetected THEN 100 ELSE 0)
        /\ ~merged'.isBot => Len(onSubmitCalls') = 1
        /\ merged'.isBot => onSubmitCalls' = << >>

C26_FailureHandled == []C26_AfterFailure /\ [][C26_NextSubmission]_vars

\* onSubmit failed in the first submission; the form accepts another one
C26_Witness ==
    /\ Len(onSubmitCalls) = 1
    /\ consoleErrors = 1
    /\ submits = 1
    /\ ~isSubmitting
    /\ ~merged.isBot

\* C27: the submit button is disabled if and only if the submitting flag is
\* true: a bot verdict of the last submission, a hook score of 50 or more or
\* a triggered honeypot never disable it.
C27_DisabledOnlyWhileSubmitting ==
    /\ SubmitDisabled <=> isSubmitting
    /\ SubmitDisabled => pending > 0
    /\ (Submitted /\ merged.isBot) => ~SubmitDisabled
    /\ ((IsBotScore(botScore) \/ isBotDetected) /\ pending = 0) => ~SubmitDisabled

\* after a submission blocked by the score and the honeypot, the button is
\* enabled
C27_Witness ==
    /\ Submitted
    /\ merged.isBot
    /\ IsBotScore(botScore)
    /\ isBotDetected
    /\ ~SubmitDisabled

\* C28: each submission is judged afresh: its verdict is that of the
\* telemetry, focus count, elapsed time, environment and honeypot flag at
\* that moment, so after a submission blocked on the behavioural score alone
\* (the hook still shows that score), a submission whose fresh behavioural
\* score is below 50 invokes onSubmit.
C28_Step ==
    submits' = submits + 1 =>
        LET fresh == analyzeBehavior(now)
        IN  /\ returned' = fresh
            /\ merged'.isBot = (fresh.score + (IF isBotDetected THEN 100 ELSE 0) >= 50
                                \/ isBotDetected)
            /\ (IsBotScore(botScore) /\ ~isBotDetected /\ fresh.score < 50) =>
                   /\ ~merged'.isBot
                   /\ Len(onSubmitCalls') = 1
                   /\ onBotDetectedCalls' = << >>

C28_FreshVerdict == [][C28_Step]_vars

\* a submission was blocked on the behavioural score alone; the fresh score
\* is now below 50 and the form accepts a submission
C28_Witness ==
    /\ submits = 1
    /\ IsBotScore(botScore)
    /\ ~isBotDetected
    /\ analyzeBehavior(now).score < 50
    /\ ~SubmitDisabled

\* C29: at no time are two calls of onSubmit pending at once.
C29_OnePending == pending <= 1

\* a call is pending, the button is disabled, the user has not given up
C29_Witness ==
    /\ pending = 1
    /\ submits = 1
    /\ SubmitDisabled

\* C30: while the hook is active each of its two listeners is registered
\* exactly once, whatever re-renders or re-activations came before; after a
\* deactivation both are deregistered, the cleanup having run once per
\* activation, also when no event was ever received; and while the hook is
\* inactive no event changes the mouse buffer, the key buffer or the last-key
\* timestamp.
C30_Registered ==
    /\ mounted =>
           /\ mouseListeners = { "trackMouseMovement" }
           /\ keyListeners = { "trackKeyPress" }
           /\ effectRuns = cleanupRuns + 1
    /\ ~mounted =>
           /\ mouseListeners = { }
           /\ keyListeners = { }
           /\ effectRuns = cleanupRuns

C30_Deaf ==
    ~mounted => UNCHANGED << mouseMovements, typingPatterns, lastKeyTime >>

C30_ListenerLifecycle == []C30_Registered /\ [][C30_Deaf]_vars

\* deactivated before any event was received, then two events dispatched to
\* the document: the buffers are empty
C30_Witness ==
    /\ ~mounted
    /\ cleanupRuns = 1
    /\ unheard = 2
    /\ mouseLog = << >>
    /\ keyLog = << >>
    /\ mouseMovements = << >>
    /\ typingPatterns = << >>
    /\ lastKeyTime = 0

Delivered ==
    { onSubmitCalls[i].botDetection : i \in DOMAIN onSubmitCalls }
    \cup { onBotDetectedCalls[i] : i \in DOMAIN onBotDetectedCalls }

\* C33: every merged result delivered to onSubmit or onBotDetected has isBot
\* true if and only if its score is at least 50.
C33_VerdictIsThreshold ==
    \A r \in Delivered : r.isBot <=> r.score >= 50

\* a result whose verdict comes from the honeypot alone
C33_Witness ==
    \E r \in Delivered :
        r.honeypotTriggered /\ r.isBot /\ r.score >= 100 /\ r.score - 100 < 50

\* C34: the merged result of a submission carries the stats of the behavioural
\* result computed in that submission (the live mouse, key and focus counts and
\* the elapsed time at the moment of scoring).
C34_LiveStats ==
    (Submitted /\ Analyzed) => merged.stats = returned.stats

\* C35: once a honeypot field of the form has been filled, honeypotTriggered
\* is true after every later step, every later submission is classified as a
\* bot, and no later step invokes onSubmit.
C35_Step ==
    honeypotFills > 0 =>
        /\ isBotDetected /\ isBotDetected'
        /\ submits' > submits =>
               merged'.honeypotTriggered /\ merged'.isBot /\ onSubmitCalls' = << >>
        /\ onSubmitCalls' \in { onSubmitCalls, << >> }

C35_HoneypotPermanent == [][C35_Step]_vars

\* a second bot-classified submission whose behavioural part is below 50
C35_Witness ==
    /\ honeypotFills > 0 /\ submits = 2 /\ Submitted
    /\ merged.honeypotTriggered /\ merged.isBot /\ merged.score < 150
    /\ onSubmitCalls = << >>

\* C36: when onBotDetected throws during a bot-classified submission, the
\* error is logged once, onSubmit is not invoked, and the submitting flag is
\* false afterwards.
C36_CallbackFailureHandled ==
    (Submitted /\ merged.isBot /\ threw) =>
        /\ Len(onBotDetectedCalls) = 1
        /\ consoleErrors = 1
        /\ onSubmitCalls = << >>
        /\ ~isSubmitting
        /\ pending = 0

C36_Witness ==
    /\ Submitted /\ merged.isBot /\ threw /\ hasOnBotDetected
    /\ consoleErrors = 1 /\ ~isSubmitting

\* The hook's telemetry: what scoring reads.
telemetry ==
    << mouseMovements, typingPatterns, lastKeyTime, focusEvents, hasMouseMovement,
       formStartTime >>

\* C37: a call of analyzeBehavior changes neither the telemetry (mouse buffer,
\* key buffer, lastKeyTime, focus counter, hasMouseMovement, formStartTime) nor
\* botScore and detectionReasons; a call of handleFormSubmit changes none of
\* the telemetry and sets botScore and detectionReasons to the score and the
\* reasons of the result it returns; before any submission they are 0 and
\* empty.
C37_Step ==
    /\ (returned' # NoResult /\ submits' = submits) =>
           UNCHANGED << telemetry, botScore, detectionReasons >>
    /\ submits' > submits =>
           /\ UNCHANGED telemetry
           /\ returned' # NoResult
           /\ botScore' = returned'.score
           /\ detectionReasons' = returned'.reasons
    /\ submits = 0 => botScore = 0 /\ detectionReasons = << >>
    /\ submits' = 0 => botScore' = 0 /\ detectionReasons' = << >>

C37_FrameOfScoring == [][C37_Step]_vars

\* analyzeBehavior has just returned a positive score over non-empty buffers
\* while the hook still holds the different score of an earlier submission
C37_Witness ==
    /\ Analyzed /\ returned.score > 0 /\ submits > 0 /\ botScore # returned.score
    /\ mouseMovements # << >> /\ typingPatterns # << >>

\* What the mouse, speed and focus rules of a scoring pass made in the current
\* state add to an empty running total.
Fresh == [ score |-> 0, reasons |-> << >> ]
Lists(reason) ==
    IF reason = R1 THEN Has(MouseRule(Fresh).reasons, reason)
    ELSE IF reason = R5 THEN Has(SpeedRule(Fresh, now).reasons, reason)
    ELSE Has(FocusRule(Fresh).reasons, reason)

\* C38: once a scoring pass omits R1, R5 or R6, every later scoring pass omits
\* it: no step takes a state whose scoring omits the reason to a state whose
\* scoring lists it, a scoring pass returns these reasons as its state
\* determines them, and no step lowers the retained mouse count, the elapsed
\* time or the focus counter.
C38_Step ==
    /\ \A reason \in { R1, R5, R6 } :
           /\ ~Lists(reason) => ~Lists(reason)'
           /\ returned' # NoResult =>
                  (Has(returned'.reasons, reason) <=> Lists(reason)')
    /\ Len(mouseMovements') >= Len(mouseMovements)
    /\ hasMouseMovement => hasMouseMovement'
    /\ now' - formStartTime' >= now - formStartTime
    /\ focusEvents' >= focusEvents

C38_NeverComeBack == [][C38_Step]_vars

\* a scoring pass without the three reasons, after the mouse buffer overflowed
C38_Witness ==
    /\ Analyzed
    /\ \A reason \in { R1, R5, R6 } : ~Has(returned.reasons, reason)
    /\ Len(mouseLog) > MouseCapacity
    /\ Len(mouseMovements) = MouseCapacity

\* C39: every submission attempt eventually leaves the submitting flag false:
\* a bot-classified submission, and one whose callback threw at once, leave it
\* false when handleSubmit returns; a submission that awaits onSubmit leaves it
\* false once that promise has settled.
C39_FlagEventuallyFalse ==
    /\ [](Submitted /\ (merged.isBot \/ threw) => ~isSubmitting)
    /\ (isSubmitting ~> ~isSubmitting)

\* both submissions awaited onSubmit and both promises have settled
C39_Witness ==
    /\ submits = 2 /\ Submitted /\ ~merged.isBot /\ Len(onSubmitCalls) = 1
    /\ ~threw /\ pending = 0 /\ ~isSubmitting
====
